---------------------------- MODULE Spec2Model ----------------------------
(***************************************************************************)
(* Model of the invoice generator (src/invoice_processor.py,               *)
(* src/config/brand_configs.py).                                           *)
(*                                                                         *)
(* Money.  The program keeps amounts as binary floats, converts them with  *)
(* Decimal(str(x)) and rounds with Decimal.quantize(ROUND_HALF_UP); line   *)
(* items are rounded with the built-in round(x, 2).  The model keeps every *)
(* amount as an integer number of mills (1/1000 rupee).  All input amounts *)
(* are multiples of 125 mills (1/8 rupee): those are exactly representable *)
(* binary fractions, so the float sums of the program are exact,           *)
(* Decimal(str(x)) is the value itself, and round(x, 2) is round-half-even *)
(* on the exact value.  _number_to_words receives amounts that were        *)
(* quantized to two decimals and is modelled on paise (1/100 rupee).       *)
(*                                                                         *)
(* pandas.  DataFrame.groupby(col) is called with its defaults (sort=True, *)
(* dropna=True): keys ascending, rows with a missing key left out, rows    *)
(* of a group in their original order.  read_excel yields NaN for an empty *)
(* cell.                                                                   *)
(***************************************************************************)
EXTENDS Integers, Sequences, FiniteSets, TLC

VARIABLES
    brand_name,     \* InvoiceProcessor.brand_name
    pc,             \* position in process_invoices / the harness
    df,             \* the DataFrame read from the uploaded file
    asc_groups,     \* df.groupby(asc_column), as a sequence of <<key, frame>>
    idx,            \* number of groups the loop of process_invoices has done
    results,        \* the results dict, as a sequence in insertion order
    asc_name,       \* the entity of the invoice generated last
    asc_data,       \* its rows
    invoice_data,   \* the invoice_data dict of _generate_single_invoice
    error,          \* the exception process_invoices raised, if any
    num,            \* argument of _number_to_words, in paise
    words,          \* result of _number_to_words
    ws              \* the worksheet _create_excel_invoice wrote last

vars == <<brand_name, pc, df, asc_groups, idx, results, asc_name, asc_data,
          invoice_data, error, num, words, ws>>

(***************************************************************************)
(* Bounds of the model.                                                    *)
(***************************************************************************)
MaxRows == 3          \* rows of an uploaded dataset
MaxGroupRows == 2     \* rows of one entity group given to _generate_single_invoice
MaxEighths == 2       \* amounts of a row are 0 .. MaxEighths eighths of a rupee
MaxLayoutRows == 4     \* rows of an entity group given to _create_excel_invoice
MaxSmallRupees == 25  \* every rupee value 0 .. MaxSmallRupees is converted to words

NaN == "NaN"          \* the missing value of pandas
None == "None"        \* a variable that holds nothing yet

(***************************************************************************)
(* Generic helpers.                                                        *)
(***************************************************************************)
RECURSIVE SeqSum(_)
SeqSum(s) == IF s = <<>> THEN 0 ELSE Head(s) + SeqSum(Tail(s))

Abs(n) == IF n < 0 THEN -n ELSE n

\* 'm in s' for Python strings
Contains(s, m) ==
    \E i \in 1..(Len(s) - Len(m) + 1) : SubSeq(s, i, i + Len(m) - 1) = m

\* Ascending order of Python str comparison over the strings of the model.
Collation == <<"A", "AMC", "Acme", "B", "Install", "Repair", "Services", "Visit",
               "Zen Free Lancer", "Zen free lancer">>

Rank(s) == CHOOSE i \in 1..Len(Collation) : Collation[i] = s

RECURSIVE SortedKeys(_)
SortedKeys(S) ==
    IF S = {} THEN <<>>
    ELSE LET k == CHOOSE x \in S : \A y \in S : Rank(x) <= Rank(y)
         IN  <<k>> \o SortedKeys(S \ {k})


(***************************************************************************)
(* Brand registry (config/brand_configs.py).                               *)
(***************************************************************************)
Brands == {"Amazon", "Harman", "Philips", "LifeLong", "CandorCRM"}

BRAND_CONFIGS_no_amount_column(brand) ==
    [asc_column |-> "ASC Name",
     required_columns |-> <<"ASC Name", "Owner Name", "Contact No.", "PAN No.",
                            "GST No.", "Address">>]

BRAND_CONFIGS(brand) ==
    CASE brand = "Amazon" ->
           [asc_column |-> "ASC Name",
            required_columns |-> <<"ASC Name", "Earning", "COD", "quantity", "category",
                                   "Owner Name", "Contact No.", "PAN No.", "GST No.",
                                   "Address">>]
      [] brand = "Harman" ->
           [asc_column |-> "ASC Name",
            required_columns |-> <<"ASC Name", "Description", "Call Charge",
                                   "Owner Name", "Contact No.", "PAN No.", "GST No.",
                                   "Address">>]
      [] brand = "Philips" ->
           [asc_column |-> "ASC Name",
            required_columns |-> <<"ASC Name", "Category", "Final Amount",
                                   "Owner Name", "Contact No.", "PAN No.", "GST No.",
                                   "Address">>]
      [] brand = "LifeLong" ->
           [asc_column |-> "ASC Name",
            required_columns |-> <<"ASC Name", "Description", "Final Amount",
                                   "Owner Name", "Contact No.", "PAN No.", "GST No.",
                                   "Address">>]
      [] brand = "CandorCRM" ->
           [asc_column |-> "ASC Name",
            required_columns |-> <<"ASC Name", "Claim Status", "Amount",
                                   "PAN No.", "GST No.", "Address">>]

Range(s) == {s[i] : i \in 1..Len(s)}

\* The column holding the monetary value of a brand: 'amount_column' of the
\* brand's section of the registry; Amazon has no such section and its amount
\* column is the 'Earning' of its required columns.
AmountColumn(brand) ==
    CASE brand = "Amazon" -> "Earning"
      [] brand = "Harman" -> "Call Charge"
      [] brand = "Philips" -> "Final Amount"
      [] brand = "LifeLong" -> "Final Amount"
      [] brand = "CandorCRM" -> "Amount"

\* The column whose sum _calculate_totals takes as total_amount for a brand
\* name; None when the name reaches the final else branch, which sums none.
TotalsAmountColumn(brand) ==
    CASE brand = "Amazon" -> "Earning"
      [] brand = "Harman" -> "Call Charge"
      [] brand = "Philips" -> "Final Amount"
      [] brand = "LifeLong" -> "Final Amount"
      [] brand = "Candor CRM" -> "Amount"
      [] OTHER -> None

\* The column that splits an entity's rows into line items ('description_column').
GroupColumn(brand) ==
    CASE brand = "Amazon" -> "category"
      [] brand = "Harman" -> "Description"
      [] brand = "Philips" -> "Category"
      [] brand = "LifeLong" -> "Description"
      [] brand = "CandorCRM" -> "Claim Status"

(***************************************************************************)
(* DataFrames: [columns |-> set of column names, rows |-> sequence of      *)
(* functions from the columns to cell values].                             *)
(***************************************************************************)
Frame(cols, rows) == [columns |-> cols, rows |-> rows]

\* len(data)
FrameLen(data) == Len(data.rows)

\* data[col].sum()
ColSum(data, col) == SeqSum([i \in 1..Len(data.rows) |-> data.rows[i][col]])

IsNaAll_any(data, col) == \E i \in 1..Len(data.rows) : data.rows[i][col] = NaN

\* data[col].isna().all()
IsNaAll(data, col) == \A i \in 1..Len(data.rows) : data.rows[i][col] = NaN

\* The rows of data whose value in col is key, in their original order.
RowsWithKey(data, col, key) ==
    LET Keep(r) == r[col] = key IN Frame(data.columns, SelectSeq(data.rows, Keep))

\* First-appearance order of the distinct non-missing values (used by the
\* alternative orderings below, never by the program).
RECURSIVE FirstSeenKeys(_, _)
FirstSeenKeys(rows, col) ==
    IF rows = <<>> THEN <<>>
    ELSE LET k == Head(rows)[col]
             Other(r) == r[col] # k
             rest == FirstSeenKeys(SelectSeq(Tail(rows), Other), col)
         IN  IF k = NaN THEN rest ELSE <<k>> \o rest

GroupByUnsorted(data, col) ==
    LET keys == FirstSeenKeys(data.rows, col)
    IN  [i \in 1..Len(keys) |-> <<keys[i], RowsWithKey(data, col, keys[i])>>]

\* data.groupby(col) with the defaults sort=True, dropna=True, iterated.
GroupBy(data, col) ==
    LET keys == SortedKeys({data.rows[i][col] : i \in 1..Len(data.rows)} \ {NaN})
    IN  [i \in 1..Len(keys) |-> <<keys[i], RowsWithKey(data, col, keys[i])>>]

(***************************************************************************)
(* Rounding.                                                               *)
(***************************************************************************)
\* The integer nearest to n/d (d > 0), a tie going away from zero.
HalfUpDiv(n, d) ==
    IF n >= 0 THEN (2 * n + d) \div (2 * d) ELSE -((2 * (-n) + d) \div (2 * d))

\* The integer nearest to n/d (d > 0), a tie going to the even neighbour.
HalfEvenDiv(n, d) ==
    LET q == n \div d
        r == n % d
    IN  IF 2 * r > d THEN q + 1
        ELSE IF 2 * r < d THEN q
        ELSE IF q % 2 = 0 THEN q ELSE q + 1

\* Truncation towards zero
TruncDiv(n, d) == IF n >= 0 THEN n \div d ELSE -((-n) \div d)

\* round_decimal of _calculate_totals: Decimal(str(v)).quantize(Decimal('0.01'),
\* ROUND_HALF_UP) of the value n/d rupees; the result in mills.
round_decimal_even(n, d) == 10 * HalfEvenDiv(100 * n, d)

round_decimal(n, d) == 10 * HalfUpDiv(100 * n, d)

\* Python's round(x, 2) of an amount of m mills that is an exact binary
\* fraction: correctly rounded, ties to even.  The result in mills.
round2(m) == 10 * HalfEvenDiv(m, 10)


(***************************************************************************)
(* _number_to_words.                                                       *)
(***************************************************************************)
ones == <<"One", "Two", "Three", "Four", "Five", "Six", "Seven", "Eight", "Nine",
          "Ten", "Eleven", "Twelve", "Thirteen", "Fourteen", "Fifteen", "Sixteen",
          "Seventeen", "Eighteen", "Nineteen">>

tens == <<"", "Twenty", "Thirty", "Forty", "Fifty", "Sixty", "Seventy", "Eighty",
          "Ninety">>

\* ones[n] of the program, whose list starts with "" at index 0
OnesAt(n) == IF n = 0 THEN "" ELSE ones[n]

RECURSIVE convert_to_words_noand(_)
convert_to_words_noand(n) ==
    IF n < 20 THEN OnesAt(n)
    ELSE IF n < 100 THEN
        tens[n \div 10] \o (IF n % 10 # 0 THEN " " \o OnesAt(n % 10) ELSE "")
    ELSE IF n < 1000 THEN
        OnesAt(n \div 100) \o " Hundred"
            \o (IF n % 100 # 0 THEN " " \o convert_to_words_noand(n % 100) ELSE "")
    ELSE IF n < 100000 THEN
        convert_to_words_noand(n \div 1000) \o " Thousand"
            \o (IF n % 1000 # 0 THEN " " \o convert_to_words_noand(n % 1000) ELSE "")
    ELSE IF n < 10000000 THEN
        convert_to_words_noand(n \div 100000) \o " Lakh"
            \o (IF n % 100000 # 0 THEN " " \o convert_to_words_noand(n % 100000) ELSE "")
    ELSE
        convert_to_words_noand(n \div 10000000) \o " Crore"
            \o (IF n % 10000000 # 0 THEN " " \o convert_to_words_noand(n % 10000000)
                ELSE "")

RECURSIVE convert_to_words(_)
convert_to_words(n) ==
    IF n < 20 THEN OnesAt(n)
    ELSE IF n < 100 THEN
        tens[n \div 10] \o (IF n % 10 # 0 THEN " " \o OnesAt(n % 10) ELSE "")
    ELSE IF n < 1000 THEN
        OnesAt(n \div 100) \o " Hundred"
            \o (IF n % 100 # 0 THEN " and " \o convert_to_words(n % 100) ELSE "")
    ELSE IF n < 100000 THEN
        convert_to_words(n \div 1000) \o " Thousand"
            \o (IF n % 1000 # 0 THEN " " \o convert_to_words(n % 1000) ELSE "")
    ELSE IF n < 10000000 THEN
        convert_to_words(n \div 100000) \o " Lakh"
            \o (IF n % 100000 # 0 THEN " " \o convert_to_words(n % 100000) ELSE "")
    ELSE
        convert_to_words(n \div 10000000) \o " Crore"
            \o (IF n % 10000000 # 0 THEN " " \o convert_to_words(n % 10000000) ELSE "")

\* rupees = int(num): the integer part of an amount of p paise
RupeesOf(p) == TruncDiv(p, 100)

\* paise = int(round((num - rupees) * 100)): the amount has two decimals, so the
\* product is within float error of an integer and round yields that integer
PaiseOf(p) == p - 100 * RupeesOf(p)

\* _number_to_words(num), num an amount of p paise
number_to_words(p) ==
    LET rupees == RupeesOf(p)
        paise  == PaiseOf(p)
    IN  IF paise = 0
        THEN convert_to_words(rupees) \o " Rupees Only"
        ELSE convert_to_words(rupees) \o " Rupees and " \o convert_to_words(paise)
                 \o " Paise Only"


(***************************************************************************)
(* _calculate_totals.                                                      *)
(***************************************************************************)
IsFreelancer_harman_only(brand, name) ==
    brand = "Harman" /\ Contains(name, "Free Lancer")

IsFreelancer_any_case(brand, name) ==
    /\ brand = "Harman" \/ brand = "LifeLong"
    /\ Contains(name, "Free Lancer") \/ Contains(name, "free lancer")

\* 'is_freelancer' of invoice_data, which the layout reads
InvoiceIsFreelancer(brand, name) ==
    (brand = "Harman" \/ brand = "LifeLong") /\ Contains(name, "Free Lancer")

\* is_freelancer of _calculate_totals (the same expression as in
\* _generate_single_invoice)
IsFreelancer(brand, name) ==
    (brand = "Harman" \/ brand = "LifeLong") /\ Contains(name, "Free Lancer")

\* total_qty, total_amount and total_cod of the brand's branch
BrandSums(data, brand) ==
    CASE brand = "Amazon" ->
           [total_qty    |-> IF "quantity" \in data.columns
                             THEN ColSum(data, "quantity") ELSE FrameLen(data),
            total_amount |-> IF "Earning" \in data.columns
                             THEN ColSum(data, "Earning") ELSE 0,
            total_cod    |-> IF "COD" \in data.columns THEN ColSum(data, "COD") ELSE 0]
      [] brand = "Harman" ->
           [total_qty    |-> FrameLen(data),
            total_amount |-> IF "Call Charge" \in data.columns
                             THEN ColSum(data, "Call Charge") ELSE 0,
            total_cod    |-> 0]
      [] brand = "Philips" ->
           [total_qty    |-> FrameLen(data),
            total_amount |-> IF "Final Amount" \in data.columns
                             THEN ColSum(data, "Final Amount") ELSE 0,
            total_cod    |-> 0]
      [] brand = "LifeLong" ->
           [total_qty    |-> FrameLen(data),
            total_amount |-> IF "Final Amount" \in data.columns
                             THEN ColSum(data, "Final Amount") ELSE 0,
            total_cod    |-> 0]
      [] brand = "Candor CRM" ->
           [total_qty    |-> FrameLen(data),
            total_amount |-> IF "Amount" \in data.columns
                             THEN ColSum(data, "Amount") ELSE 0,
            total_cod    |-> 0]
      [] OTHER ->
           [total_qty |-> FrameLen(data), total_amount |-> 0, total_cod |-> 0]

Igst_ignore_freelancer(is_freelancer, total_amount) ==
    round_decimal(total_amount * 18, 100000)

\* igst_dec: 0.00 for a freelancer, else round_decimal(total_amount * 0.18)
Igst(is_freelancer, total_amount) ==
    IF is_freelancer THEN 0 ELSE round_decimal(total_amount * 18, 100000)

\* invoice_amount_dec = round_decimal(total_amount_dec + igst_dec)
InvoiceAmount(total_amount, igst) == round_decimal(total_amount + igst, 1000)

NetAmount_no_deduction(brand, invoice_amount, total_cod) == invoice_amount

\* net_amount_dec
NetAmount(brand, invoice_amount, total_cod) ==
    IF brand \in {"Harman", "Philips", "LifeLong", "Candor CRM"}
    THEN invoice_amount
    ELSE round_decimal(invoice_amount - total_cod, 1000)

calculate_totals_words_from_net(data, brand, name) ==
    LET is_freelancer  == IsFreelancer(brand, name)
        sums           == BrandSums(data, brand)
        igst           == Igst(is_freelancer, sums.total_amount)
        invoice_amount == InvoiceAmount(sums.total_amount, igst)
        net_amount     == NetAmount(brand, invoice_amount, sums.total_cod)
    IN  [total_qty       |-> sums.total_qty,
         total_amount    |-> sums.total_amount,
         total_cod       |-> sums.total_cod,
         igst            |-> igst,
         cgst            |-> 0,
         sgst            |-> 0,
         invoice_amount  |-> invoice_amount,
         net_amount      |-> net_amount,
         is_freelancer   |-> is_freelancer,
         brand           |-> brand,
         amount_in_words |-> number_to_words(Abs(net_amount) \div 10)]

\* _calculate_totals(asc_data, brand_name, asc_name); amounts in mills
calculate_totals(data, brand, name) ==
    LET is_freelancer  == IsFreelancer(brand, name)
        sums           == BrandSums(data, brand)
        igst           == Igst(is_freelancer, sums.total_amount)
        invoice_amount == InvoiceAmount(sums.total_amount, igst)
        net_amount     == NetAmount(brand, invoice_amount, sums.total_cod)
    IN  [total_qty       |-> sums.total_qty,
         total_amount    |-> sums.total_amount,
         total_cod       |-> sums.total_cod,
         igst            |-> igst,
         cgst            |-> 0,
         sgst            |-> 0,
         invoice_amount  |-> invoice_amount,
         net_amount      |-> net_amount,
         is_freelancer   |-> is_freelancer,
         brand           |-> brand,
         amount_in_words |-> number_to_words(invoice_amount \div 10)]


(***************************************************************************)
(* _extract_items.                                                         *)
(***************************************************************************)
BranchItems_average_rate(data, group_col, amount_col, qty_col, sac_code, with_rate) ==
    LET Qty(g) == IF qty_col # None /\ qty_col \in g.columns
                  THEN ColSum(g, qty_col) ELSE FrameLen(g)
        Amt(g) == IF amount_col \in g.columns THEN ColSum(g, amount_col) ELSE 0
        Rate(g) == IF FrameLen(g) > 0 /\ amount_col \in g.columns
                   THEN ColSum(g, amount_col) \div FrameLen(g) ELSE 0
        Item(desc, g) ==
            IF with_rate
            THEN [description |-> desc, sac_code |-> sac_code, quantity |-> Qty(g),
                  rate |-> round2(Rate(g)), amount |-> round2(Amt(g))]
            ELSE [description |-> desc, sac_code |-> sac_code, quantity |-> Qty(g),
                  amount |-> round2(Amt(g))]
    IN  IF group_col \in data.columns /\ ~IsNaAll(data, group_col)
        THEN LET groups == GroupBy(data, group_col)
             IN  [i \in 1..Len(groups) |->
                    Item(IF groups[i][1] # NaN THEN groups[i][1] ELSE "Services",
                         groups[i][2])]
        ELSE <<Item("Services", data)>>

\* One line item per group of asc_data.groupby(group_col), or the single
\* fallback item: the shape the five brand branches share.  qty_col is the
\* quantity column of the branch (None: the branch counts rows), with_rate
\* adds the rate of the CandorCRM branch.
BranchItems(data, group_col, amount_col, qty_col, sac_code, with_rate) ==
    LET Qty(g) == IF qty_col # None /\ qty_col \in g.columns
                  THEN ColSum(g, qty_col) ELSE FrameLen(g)
        Amt(g) == IF amount_col \in g.columns THEN ColSum(g, amount_col) ELSE 0
        Rate(g) == IF FrameLen(g) > 0 /\ amount_col \in g.columns
                   THEN g.rows[1][amount_col] ELSE 0
        Item(desc, g) ==
            IF with_rate
            THEN [description |-> desc, sac_code |-> sac_code, quantity |-> Qty(g),
                  rate |-> round2(Rate(g)), amount |-> round2(Amt(g))]
            ELSE [description |-> desc, sac_code |-> sac_code, quantity |-> Qty(g),
                  amount |-> round2(Amt(g))]
    IN  IF group_col \in data.columns /\ ~IsNaAll(data, group_col)
        THEN LET groups == GroupBy(data, group_col)
             IN  [i \in 1..Len(groups) |->
                    Item(IF groups[i][1] # NaN THEN groups[i][1] ELSE "Services",
                         groups[i][2])]
        ELSE <<Item("Services", data)>>

extract_items_quantity_column(data, brand) ==
    CASE brand = "Amazon" ->
           BranchItems(data, "category", "Earning", "quantity", "998715", FALSE)
      [] brand = "Harman" ->
           BranchItems(data, "Description", "Call Charge", "quantity", "998715", FALSE)
      [] brand = "Philips" ->
           BranchItems(data, "Category", "Final Amount", "quantity", "998715", FALSE)
      [] brand = "LifeLong" ->
           BranchItems(data, "Description", "Final Amount", "quantity", "998715", FALSE)
      [] brand = "CandorCRM" ->
           BranchItems(data, "Claim Status", "Amount", "quantity", "998729", TRUE)
      [] OTHER -> <<>>

\* _extract_items(asc_data) of a processor of the given brand
extract_items(data, brand) ==
    CASE brand = "Amazon" ->
           BranchItems(data, "category", "Earning", "quantity", "998715", FALSE)
      [] brand = "Harman" ->
           BranchItems(data, "Description", "Call Charge", None, "998715", FALSE)
      [] brand = "Philips" ->
           BranchItems(data, "Category", "Final Amount", None, "998715", FALSE)
      [] brand = "LifeLong" ->
           BranchItems(data, "Description", "Final Amount", None, "998715", FALSE)
      [] brand = "CandorCRM" ->
           BranchItems(data, "Claim Status", "Amount", None, "998729", TRUE)
      [] OTHER -> <<>>

(***************************************************************************)
(* The line-item rows of the worksheet: _create_excel_invoice and          *)
(* _create_candor_crm_invoice.  A written row is its row number, the       *)
(* values of columns A-D and whether the cells carry a border.             *)
(***************************************************************************)
spacing_rows == 3

\* The unbordered empty rows after a LifeLong item that is not the last
SpacingRows(current_row) ==
    [k \in 1..spacing_rows |->
        [row |-> current_row + k - 1, cells |-> <<"", "", "", "">>, border |-> FALSE]]

RECURSIVE ItemRows_spacing_after_last(_, _, _)
ItemRows_spacing_after_last(items, brand, current_row) ==
    IF items = <<>> THEN <<>>
    ELSE LET item == Head(items)
             spacing == IF brand = "LifeLong" THEN SpacingRows(current_row + 1) ELSE <<>>
         IN  <<[row |-> current_row,
                cells |-> <<item.description, item.sac_code, item.quantity, item.amount>>,
                border |-> TRUE]>>
             \o spacing
             \o ItemRows_spacing_after_last(Tail(items), brand,
                                            current_row + 1 + Len(spacing))

RECURSIVE ItemRows_bottom_up(_, _, _)
ItemRows_bottom_up(items, brand, current_row) ==
    IF items = <<>> THEN <<>>
    ELSE LET item == items[Len(items)]
             spacing == IF brand = "LifeLong" /\ Len(items) > 1
                        THEN SpacingRows(current_row + 1) ELSE <<>>
         IN  <<[row |-> current_row,
                cells |-> <<item.description, item.sac_code, item.quantity, item.amount>>,
                border |-> TRUE]>>
             \o spacing
             \o ItemRows_bottom_up(SubSeq(items, 1, Len(items) - 1), brand,
                                   current_row + 1 + Len(spacing))

\* The loop 'for idx, item in enumerate(items)' of the standard layout, from
\* current_row on
RECURSIVE ItemRows(_, _, _)
ItemRows(items, brand, current_row) ==
    IF items = <<>> THEN <<>>
    ELSE LET item == Head(items)
             spacing == IF brand = "LifeLong" /\ Len(items) > 1
                        THEN SpacingRows(current_row + 1) ELSE <<>>
         IN  <<[row |-> current_row,
                cells |-> <<item.description, item.sac_code, item.quantity, item.amount>>,
                border |-> TRUE]>>
             \o spacing
             \o ItemRows(Tail(items), brand, current_row + 1 + Len(spacing))

\* The loop 'for item in invoice_data["items"]' of the CandorCRM layout
CandorItemRows(items, current_row) ==
    [i \in 1..Len(items) |->
        [row |-> current_row + i - 1,
         cells |-> <<items[i].description, items[i].quantity, items[i].rate,
                     items[i].amount>>,
         border |-> TRUE]]

\* The value of a cell: a text, a number, or nothing written
Text(s) == [text |-> s]
Number(x) == [number |-> x]
Blank == [blank |-> TRUE]

\* Columns A-D that carry the thin border / the peach fill
AllCols == <<TRUE, TRUE, TRUE, TRUE>>
NoCols == <<FALSE, FALSE, FALSE, FALSE>>

\* A row of the worksheet outside the item table: its number, the section
\* that writes it, the values of columns A-D, and which of them are bordered
\* and filled.
SheetRow(r, section, cells, border, fill) ==
    [row |-> r, section |-> section, cells |-> cells, border |-> border, fill |-> fill]

\* ws.merge_cells: a merged region
Merge(min_row, min_col, max_row, max_col) ==
    [min_row |-> min_row, min_col |-> min_col, max_row |-> max_row, max_col |-> max_col]

\* invoice_title of the standard layout
InvoiceTitle(brand) ==
    IF brand = "Harman" \/ brand = "LifeLong" THEN "Bill of Supply" ELSE "Tax Invoice"

\* Rows 1-11 of the standard layout: title, ASC details with the invoice
\* header details, Bill To with the company details, month title, table
\* headers.
HeaderRows(inv) ==
    LET details == <<"Invoice Number:", "Invoice Date:", "PAN No.:", "GST No.:">>
        company == <<"PAN No.:", "GST No.:", "State Code:", "Place of Supply:">>
    IN  <<SheetRow(1, "title", <<Text(InvoiceTitle(inv.brand)), Blank, Blank, Blank>>,
                   AllCols, AllCols)>>
        \o [k \in 1..4 |->
              SheetRow(1 + k, "asc_details",
                       <<IF k = 1 THEN Text(inv.asc_name) ELSE Blank, Blank,
                         Text(details[k]), Blank>>,
                       AllCols, NoCols)]
        \o [k \in 1..4 |->
              SheetRow(5 + k, "bill_to",
                       <<IF k = 1 THEN Text("Bill To") ELSE Blank, Blank,
                         Text(company[k]), Blank>>,
                       AllCols, NoCols)]
        \o <<SheetRow(10, "month_title", <<Text("Invoice Month"), Blank, Blank, Blank>>,
                      AllCols, NoCols),
             SheetRow(11, "table_headers",
                      <<Text("Description"), Text("SAC Code"), Text("Qty"), Text("Amount")>>,
                      AllCols, AllCols)>>

HeaderMerges_overlapping ==
    <<Merge(1, 1, 1, 4), Merge(2, 1, 6, 2), Merge(6, 1, 9, 2), Merge(10, 1, 10, 4)>>

HeaderMerges ==
    <<Merge(1, 1, 1, 4), Merge(2, 1, 5, 2), Merge(6, 1, 9, 2), Merge(10, 1, 10, 4)>>

DeclarationRows_eight(declaration_row) ==
    [k \in 1..8 |->
        SheetRow(declaration_row + k - 1, "declaration",
                 <<IF k = 1 THEN Text("Declaration") ELSE Blank, Blank,
                   IF k = 1 THEN Text("Authorised Signatory") ELSE Blank, Blank>>,
                 AllCols, NoCols)]

\* The declaration and the signatory block: rows declaration_row ..
\* declaration_row + 8, columns A-B and C-D
DeclarationRows(declaration_row) ==
    [k \in 1..9 |->
        SheetRow(declaration_row + k - 1, "declaration",
                 <<IF k = 1 THEN Text("Declaration") ELSE Blank, Blank,
                   IF k = 1 THEN Text("Authorised Signatory") ELSE Blank, Blank>>,
                 AllCols, NoCols)]

DeclarationMerges(declaration_row) ==
    <<Merge(declaration_row, 1, declaration_row + 8, 2),
      Merge(declaration_row, 3, declaration_row + 8, 4)>>

\* The two rows of the amount in words
WordsRows(words_row, totals) ==
    <<SheetRow(words_row, "amount_in_words",
               <<Text("Invoice Amount (in words)"), Blank, Blank, Blank>>, AllCols, NoCols),
      SheetRow(words_row + 1, "amount_in_words",
               <<Text(totals.amount_in_words), Blank, Blank, Blank>>, AllCols, NoCols)>>

WordsMerges(words_row) ==
    <<Merge(words_row, 1, words_row, 4), Merge(words_row + 1, 1, words_row + 1, 4)>>

\* words_start_row of the standard layout
WordsStartRow_after_invoice(brand, gst_start) == gst_start + 4

WordsStartRow(brand, gst_start) ==
    IF brand = "Amazon" THEN (gst_start + 5) + 1 ELSE (gst_start + 3) + 1

IgstCells_always_rate(totals) ==
    <<Text("IGST"), Blank, Text("18%"), Number(totals.igst)>>

\* The cells of the IGST row of the standard layout
IgstCells(totals) ==
    IF totals.is_freelancer
    THEN <<Text("IGST"), Blank, Text("-"), Text("-")>>
    ELSE <<Text("IGST"), Blank, Text("18%"), Number(totals.igst)>>

\* The rows of the standard layout from the total row on
TailRows(inv, total_row) ==
    LET totals == inv.totals
        gst_start == total_row + 1
        invoice_row == gst_start + 3
        words_row == WordsStartRow(inv.brand, gst_start)
        declaration_row == words_row + 2
        Dash == Text("-")
    IN  <<SheetRow(total_row, "total",
                   <<Text(""), Blank, Number(totals.total_qty), Number(totals.total_amount)>>,
                   AllCols, NoCols),
          SheetRow(gst_start, "gst", IgstCells(totals), AllCols, NoCols),
          SheetRow(gst_start + 1, "gst", <<Text("CGST"), Blank, Dash, Dash>>, AllCols, NoCols),
          SheetRow(gst_start + 2, "gst", <<Text("SGST"), Blank, Dash, Dash>>, AllCols, NoCols),
          SheetRow(invoice_row, "invoice_amount",
                   <<Text("Invoice Amount"), Blank, Blank, Number(totals.invoice_amount)>>,
                   AllCols, AllCols)>>
        \o (IF inv.brand = "Amazon"
            THEN <<SheetRow(gst_start + 4, "advance",
                            <<Text("Advance Received (COD)"), Blank, Blank,
                              Number(totals.total_cod)>>, AllCols, NoCols),
                   SheetRow(gst_start + 5, "advance",
                            <<Text("Net Amount"), Blank, Blank, Number(totals.net_amount)>>,
                            AllCols, NoCols)>>
            ELSE <<>>)
        \o WordsRows(words_row, totals)
        \o DeclarationRows(declaration_row)

TailMerges(inv, total_row) ==
    LET gst_start == total_row + 1
        words_row == WordsStartRow(inv.brand, gst_start)
        LabelMerge(r) == Merge(r, 1, r, 2)
    IN  <<LabelMerge(total_row), LabelMerge(gst_start), LabelMerge(gst_start + 1),
          LabelMerge(gst_start + 2), LabelMerge(gst_start + 3)>>
        \o (IF inv.brand = "Amazon"
            THEN <<LabelMerge(gst_start + 4), LabelMerge(gst_start + 5)>> ELSE <<>>)
        \o WordsMerges(words_row)
        \o DeclarationMerges(words_row + 2)

\* Rows 1-12 of the CandorCRM layout: title, ASC details with the invoice
\* header details, the SAC code row (columns C-D only), Buyer with the company
\* details, month title, table headers.
CandorHeaderRows(inv) ==
    LET details == <<"Invoice Number:", "Invoice Date:", "PAN No.:", "GST No.:">>
        company == <<"PAN No.:", "GST No.:", "State Code:", "Place of Supply:">>
    IN  <<SheetRow(1, "title", <<Text("Tax Invoice"), Blank, Blank, Blank>>,
                   AllCols, AllCols)>>
        \o [k \in 1..4 |->
              SheetRow(1 + k, "asc_details",
                       <<IF k = 1 THEN Text(inv.asc_name) ELSE Blank, Blank,
                         Text(details[k]), Blank>>,
                       AllCols, NoCols)]
        \o <<SheetRow(6, "sac_code", <<Blank, Blank, Text("SAC Code:"), Text("998729")>>,
                      <<FALSE, FALSE, TRUE, TRUE>>, NoCols)>>
        \o [k \in 1..4 |->
              SheetRow(6 + k, "buyer",
                       <<IF k = 1 THEN Text("Buyer") ELSE Blank, Blank,
                         Text(company[k]), Blank>>,
                       AllCols, NoCols)]
        \o <<SheetRow(11, "month_title", <<Text("Claim Month"), Blank, Blank, Blank>>,
                      AllCols, NoCols),
             SheetRow(12, "table_headers",
                      <<Text("Description"), Text("Quantity"), Text("Rate"), Text("Amount")>>,
                      AllCols, AllCols)>>

CandorHeaderMerges ==
    <<Merge(1, 1, 1, 4), Merge(2, 1, 5, 2), Merge(7, 1, 10, 2), Merge(11, 1, 11, 4)>>

\* The rows of the CandorCRM layout from the total row on
CandorTailRows(inv, total_row) ==
    LET totals == inv.totals
        gst_start == total_row + 1
        grand_total_row == gst_start + 4
        words_row == grand_total_row + 1
        declaration_row == words_row + 2
    IN  <<SheetRow(total_row, "total",
                   <<Text("Total"), Blank, Blank, Number(totals.total_amount)>>,
                   AllCols, NoCols),
          SheetRow(gst_start, "gst", <<Text("IGST"), Blank, Blank, Text("18%")>>,
                   AllCols, NoCols),
          SheetRow(gst_start + 1, "gst", <<Text(""), Blank, Blank, Number(totals.igst)>>,
                   AllCols, NoCols),
          SheetRow(gst_start + 2, "gst", <<Text("CGST"), Blank, Blank, Text("-")>>,
                   AllCols, NoCols),
          SheetRow(gst_start + 3, "gst", <<Text("SGST"), Blank, Blank, Text("-")>>,
                   AllCols, NoCols),
          SheetRow(grand_total_row, "invoice_amount",
                   <<Text("Grand Total"), Blank, Blank, Number(totals.invoice_amount)>>,
                   AllCols, AllCols)>>
        \o WordsRows(words_row, totals)
        \o DeclarationRows(declaration_row)

CandorTailMerges(total_row) ==
    LET gst_start == total_row + 1
        words_row == (gst_start + 4) + 1
    IN  [k \in 1..6 |-> Merge(total_row + k - 1, 1, total_row + k - 1, 3)]
        \o WordsMerges(words_row)
        \o DeclarationMerges(words_row + 2)

create_candor_crm_invoice_standard_tail(name, inv) ==
    LET rows == CandorItemRows(inv.items, 13)
        total_row == 13 + Len(rows)
    IN  [header_rows |-> CandorHeaderRows(inv),
         item_rows   |-> rows,
         total_row   |-> total_row,
         tail_rows   |-> TailRows(inv, total_row),
         merges      |-> CandorHeaderMerges \o TailMerges(inv, total_row)]

\* _create_candor_crm_invoice: the rows of the worksheet and its merged regions
create_candor_crm_invoice(name, inv) ==
    LET rows == CandorItemRows(inv.items, 13)
        total_row == 13 + Len(rows)
    IN  [header_rows |-> CandorHeaderRows(inv),
         item_rows   |-> rows,
         total_row   |-> total_row,
         tail_rows   |-> CandorTailRows(inv, total_row),
         merges      |-> CandorHeaderMerges \o CandorTailMerges(total_row)]

\* _create_excel_invoice: the rows of the worksheet and its merged regions
create_excel_invoice(name, inv) ==
    IF inv.brand = "CandorCRM"
    THEN create_candor_crm_invoice(name, inv)
    ELSE LET rows == ItemRows(inv.items, inv.brand, 12)
             total_row == 12 + Len(rows)
         IN  [header_rows |-> HeaderRows(inv),
              item_rows   |-> rows,
              total_row   |-> total_row,
              tail_rows   |-> TailRows(inv, total_row),
              merges      |-> HeaderMerges \o TailMerges(inv, total_row)]

(***************************************************************************)
(* _generate_single_invoice: the invoice_data it builds (the fields the    *)
(* computation decides).                                                   *)
(***************************************************************************)
generate_single_invoice(name, data, brand) ==
    [asc_name      |-> name,
     items         |-> extract_items(data, brand),
     brand         |-> brand,
     is_freelancer |-> InvoiceIsFreelancer(brand, name),
     totals        |-> calculate_totals(data, brand, name)]


(***************************************************************************)
(* Inputs.                                                                 *)
(***************************************************************************)
\* A row of a dataset with the given columns.
MkRow(brand, cols, entity, grp, amt, cod, qty) ==
    [c \in cols |->
        CASE c = BRAND_CONFIGS(brand).asc_column -> entity
          [] c = GroupColumn(brand) -> grp
          [] c = AmountColumn(brand) -> amt
          [] c = "COD" -> cod
          [] c = "quantity" -> qty
          [] OTHER -> ""]

SeqsUpTo(S, lo, hi) == UNION {[1..n -> S] : n \in lo..hi}

\* Uploaded datasets: the brand's required columns, or those without the
\* brand's group column; entity cells may be empty.
UploadEntities == {"Zen Free Lancer", "Acme", NaN}
UploadAmounts == {5000, 10000, 20000}

ColumnChoices(brand) ==
    LET req == Range(BRAND_CONFIGS(brand).required_columns)
    IN  {req, req \ {GroupColumn(brand)}, req \ {AmountColumn(brand)},
         req \ {GroupColumn(brand), "Address"}}

\* The three-row dataset of the end-to-end scenario: entities A, A, B with
\* amounts 10.00, 5.00, 20.00, on the given columns; a group column that is
\* present is empty in every row.
ScenarioDataset(brand, cols) ==
    Frame(cols, <<MkRow(brand, cols, "A", NaN, 10000, 0, 1),
                  MkRow(brand, cols, "A", NaN, 5000, 0, 1),
                  MkRow(brand, cols, "B", NaN, 20000, 0, 1)>>)

ScenarioDatasets(brand) ==
    LET req == Range(BRAND_CONFIGS(brand).required_columns)
    IN  {ScenarioDataset(brand, req), ScenarioDataset(brand, req \ {GroupColumn(brand)})}

Datasets(brand) ==
    ScenarioDatasets(brand) \cup
    UNION {
      {Frame(cols, rows) :
         rows \in SeqsUpTo({MkRow(brand, cols, e, "Repair", a, 0, 1) :
                              e \in UploadEntities, a \in UploadAmounts},
                           0, MaxRows)} :
      cols \in ColumnChoices(brand)}

\* Entity groups handed to _generate_single_invoice: one entity, one or more
\* rows on the given columns.
EntityNames == {"Acme", "Zen Free Lancer", "Zen free lancer"}
GroupValues == {"Repair", "Install", NaN}
Amounts == {125 * k : k \in 0..MaxEighths}
CodValues == {0, 125}
QtyValues == {1, 3}

\* The columns of an entity group: the required columns, those without the
\* group column, and those with the 'quantity' column taken away (Amazon,
\* which requires it) or added (the brands that do not).
GroupColumnChoices(brand) ==
    LET req == Range(BRAND_CONFIGS(brand).required_columns)
    IN  {req, req \ {GroupColumn(brand)},
         IF "quantity" \in req THEN req \ {"quantity"} ELSE req \cup {"quantity"}}

EntityGroups(brand, name, cols) ==
    LET rowset == {MkRow(brand, cols, name, g, a, c, q) :
                     g \in IF GroupColumn(brand) \in cols THEN GroupValues ELSE {NaN},
                     a \in Amounts,
                     c \in IF "COD" \in cols THEN CodValues ELSE {0},
                     q \in IF "quantity" \in cols THEN QtyValues ELSE {1}}
    IN  {Frame(cols, rows) : rows \in SeqsUpTo(rowset, 1, MaxGroupRows)}

\* Entity groups whose invoice_data is handed to _create_excel_invoice: up to
\* MaxLayoutRows rows of 10.00 each, every row with a group value, so that an
\* invoice has one to four line items.
LayoutNames == {"Acme", "Zen Free Lancer"}
LayoutGroupValues == {"AMC", "Install", "Repair", "Visit"}

LayoutGroups(brand, name) ==
    LET cols == Range(BRAND_CONFIGS(brand).required_columns)
        rowset == {MkRow(brand, cols, name, g, 10000, 125, 1) : g \in LayoutGroupValues}
    IN  {Frame(cols, rows) : rows \in SeqsUpTo(rowset, 1, MaxLayoutRows)}

\* Amounts given to _number_to_words, in paise.
RupeeSamples ==
    (0..MaxSmallRupees) \cup
    {99, 100, 101, 110, 119, 120, 999, 1000, 1001, 1234, 9999, 10000, 10101,
     99999, 100000, 100001, 123456, 999999, 9999999, 10000000, 10000001, 12345678}

WordInputs == {100 * r + p : r \in RupeeSamples, p \in 0..99}

(***************************************************************************)
(* process_invoices.                                                       *)
(***************************************************************************)
Init ==
    /\ brand_name \in Brands
    /\ pc = "start"
    /\ df = None
    /\ asc_groups = <<>>
    /\ idx = 0
    /\ results = None
    /\ asc_name = None
    /\ asc_data = None
    /\ invoice_data = None
    /\ error = None
    /\ num = 0
    /\ words = None
    /\ ws = None

MissingCols_first_only(brand, data) ==
    LET NotIn(c) == c \notin data.columns
        all == SelectSeq(BRAND_CONFIGS(brand).required_columns, NotIn)
    IN  IF all = <<>> THEN <<>> ELSE <<Head(all)>>

\* missing_cols = [col for col in required_cols if col not in df.columns]
MissingCols(brand, data) ==
    LET NotIn(c) == c \notin data.columns
    IN  SelectSeq(BRAND_CONFIGS(brand).required_columns, NotIn)

\* process_invoices up to its loop: read the file, validate the columns, group.
ReadAndGroup ==
    /\ pc = "start"
    /\ \E d \in Datasets(brand_name) :
         LET missing_cols == MissingCols(brand_name, d)
             asc_column == BRAND_CONFIGS(brand_name).asc_column
         IN  /\ df' = d
             /\ IF missing_cols # <<>>
                THEN /\ error' = [kind |-> "Missing required columns",
                                  cols |-> missing_cols]
                     /\ pc' = "error"
                     /\ UNCHANGED <<asc_groups, results>>
                ELSE IF asc_column \notin d.columns
                THEN /\ error' = [kind |-> "ASC column not found",
                                  cols |-> <<asc_column>>]
                     /\ pc' = "error"
                     /\ UNCHANGED <<asc_groups, results>>
                ELSE /\ asc_groups' = GroupBy(d, asc_column)
                     /\ results' = <<>>
                     /\ pc' = "loop"
                     /\ UNCHANGED error
    /\ UNCHANGED <<brand_name, idx, asc_name, asc_data, invoice_data, num, words, ws>>

\* The summary total_amount / total_cod of the result entry
SummaryAmount(data) == IF "Earning" \in data.columns THEN ColSum(data, "Earning") ELSE 0
SummaryCod(data) == IF "COD" \in data.columns THEN ColSum(data, "COD") ELSE 0

\* An iteration in which _generate_single_invoice and _create_supporting_data
\* return: the entry of the group is stored.
GroupSucceeds ==
    /\ LET name == asc_groups[idx + 1][1]
           data == asc_groups[idx + 1][2]
           inv  == generate_single_invoice(name, data, brand_name)
       IN  /\ asc_name' = name
           /\ asc_data' = data
           /\ invoice_data' = inv
           /\ ws' = create_excel_invoice(name, inv)
           /\ results' = Append(results,
                                [asc_name     |-> name,
                                 invoice      |-> inv,
                                 raw_data     |-> data.rows,
                                 records      |-> FrameLen(data),
                                 total_amount |-> SummaryAmount(data),
                                 total_cod    |-> SummaryCod(data)])
    /\ idx' = idx + 1
    /\ UNCHANGED <<brand_name, pc, df, asc_groups, error, num, words>>

GroupFails_swallowed ==
    /\ asc_name' = asc_groups[idx + 1][1]
    /\ asc_data' = asc_groups[idx + 1][2]
    /\ invoice_data' = None
    /\ idx' = idx + 1
    /\ UNCHANGED <<brand_name, pc, df, asc_groups, results, error, num, words, ws>>

\* An iteration in which the workbook writer (wb.save, to_excel) raises: the
\* loop has no handler, the exception leaves process_invoices, and the local
\* results is lost with its frame.
GroupFails ==
    /\ asc_name' = asc_groups[idx + 1][1]
    /\ asc_data' = asc_groups[idx + 1][2]
    /\ invoice_data' = None
    /\ results' = None
    /\ error' = [kind |-> "Group processing failed", cols |-> <<>>]
    /\ pc' = "error"
    /\ UNCHANGED <<brand_name, df, asc_groups, idx, num, words, ws>>

\* One iteration of the loop over asc_groups.
ProcessGroup ==
    /\ pc = "loop"
    /\ idx < Len(asc_groups)
    /\ \E ok \in BOOLEAN : IF ok THEN GroupSucceeds ELSE GroupFails

\* return results
Return ==
    /\ pc = "loop"
    /\ idx = Len(asc_groups)
    /\ pc' = "done"
    /\ UNCHANGED <<brand_name, df, asc_groups, idx, results, asc_name, asc_data,
                   invoice_data, error, num, words, ws>>

Next == ReadAndGroup \/ ProcessGroup \/ Return

Spec == Init /\ [][Next]_vars

(***************************************************************************)
(* _generate_single_invoice applied to one entity group.                   *)
(***************************************************************************)
InitInvoice ==
    /\ brand_name \in Brands
    /\ pc = "invoice"
    /\ df = None
    /\ asc_groups = <<>>
    /\ idx = 0
    /\ results = None
    /\ asc_name = None
    /\ asc_data = None
    /\ invoice_data = None
    /\ error = None
    /\ num = 0
    /\ words = None
    /\ ws = None

GenerateSingleInvoice ==
    /\ pc = "invoice"
    /\ \E name \in EntityNames, cols \in GroupColumnChoices(brand_name) :
         \E data \in EntityGroups(brand_name, name, cols) :
            LET inv == generate_single_invoice(name, data, brand_name)
            IN  /\ asc_name' = name
                /\ asc_data' = data
                /\ invoice_data' = inv
                /\ ws' = create_excel_invoice(name, inv)
    /\ pc' = "invoice_done"
    /\ UNCHANGED <<brand_name, df, asc_groups, idx, results, error, num, words>>

NextInvoice == GenerateSingleInvoice

SpecInvoice == InitInvoice /\ [][NextInvoice]_vars

(***************************************************************************)
(* _number_to_words applied to one amount.                                 *)
(***************************************************************************)
InitWords ==
    /\ brand_name = None
    /\ pc = "words"
    /\ df = None
    /\ asc_groups = <<>>
    /\ idx = 0
    /\ results = None
    /\ asc_name = None
    /\ asc_data = None
    /\ invoice_data = None
    /\ error = None
    /\ num \in WordInputs
    /\ words = None
    /\ ws = None

NumberToWords ==
    /\ pc = "words"
    /\ words' = number_to_words(num)
    /\ pc' = "words_done"
    /\ UNCHANGED <<brand_name, df, asc_groups, idx, results, asc_name, asc_data,
                   invoice_data, error, num, ws>>

NextWords == NumberToWords

SpecWords == InitWords /\ [][NextWords]_vars

(***************************************************************************)
(* _create_excel_invoice applied to the invoice_data of one entity group.  *)
(***************************************************************************)
InitLayout ==
    /\ brand_name \in Brands
    /\ pc = "layout"
    /\ df = None
    /\ asc_groups = <<>>
    /\ idx = 0
    /\ results = None
    /\ asc_name \in LayoutNames
    /\ asc_data \in LayoutGroups(brand_name, asc_name)
    /\ invoice_data = generate_single_invoice(asc_name, asc_data, brand_name)
    /\ error = None
    /\ num = 0
    /\ words = None
    /\ ws = None

CreateExcelInvoice ==
    /\ pc = "layout"
    /\ ws' = create_excel_invoice(asc_name, invoice_data)
    /\ pc' = "layout_done"
    /\ UNCHANGED <<brand_name, df, asc_groups, idx, results, asc_name, asc_data,
                   invoice_data, error, num, words>>

NextLayout == CreateExcelInvoice

SpecLayout == InitLayout /\ [][NextLayout]_vars


(***************************************************************************)
(* Properties.                                                             *)
(***************************************************************************)
\* x (mills, a whole number of paise) is v (mills) rounded to two decimals,
\* a tie going away from zero
IsHalfUp2(x, v) ==
    /\ x % 10 = 0
    /\ Abs(x - v) <= 5
    /\ Abs(x - v) = 5 => Abs(x) > Abs(v)

InvoiceDone == pc = "invoice_done"

Totals == invoice_data.totals

\* The sum of the brand's amount column over the rows of the group
AmountSum == ColSum(asc_data, AmountColumn(brand_name))

ItemAmountSum ==
    SeqSum([i \in 1..Len(invoice_data.items) |-> invoice_data.items[i].amount])

\* C1: for every group and brand, tax is gross x 0.18 rounded half-up to two
\* decimals unless the group is zero-rated, and invoiceAmount is gross + that
\* rounded tax, again rounded half-up to two decimals.
C1_RoundingLaw ==
    InvoiceDone =>
        /\ ~Totals.is_freelancer =>
              /\ Totals.igst % 10 = 0
              /\ Abs(100 * Totals.igst - 18 * Totals.total_amount) <= 500
              /\ Abs(100 * Totals.igst - 18 * Totals.total_amount) = 500
                    => 100 * Totals.igst > 18 * Totals.total_amount
        /\ IsHalfUp2(Totals.invoice_amount, Totals.total_amount + Totals.igst)

\* An exact half cent of tax (gross 0.25 -> 0.045) that was rounded up, and an
\* invoice amount that two rounding steps and one combined step disagree on.
C1_Witness ==
    /\ InvoiceDone
    /\ ~Totals.is_freelancer
    /\ Totals.total_amount > 0
    /\ (18 * Totals.total_amount) % 1000 = 500
    /\ 100 * Totals.igst = 18 * Totals.total_amount + 500

\* C2: for every registry brand the gross amount of the totals is the sum of
\* the brand's amount column over the rows of the group.
C2_GrossIsAmountSum ==
    InvoiceDone => Totals.total_amount = AmountSum

\* C5: the line-item amounts add up to the gross amount of the totals (taken
\* at two decimals) within 0.01.
C5_LineItemConservation ==
    InvoiceDone =>
        Abs(ItemAmountSum - round_decimal(Totals.total_amount, 1000)) <= 10

\* C6 (as stated): a freelancer entity under Harman or LifeLong has tax 0.00
\* and invoiceAmount = grossAmount, for every gross amount.
C6_FreelancerInvoiceIsGross ==
    (InvoiceDone /\ brand_name \in {"Harman", "LifeLong"}
                 /\ Contains(asc_name, "Free Lancer"))
        => /\ Totals.igst = 0
           /\ Totals.invoice_amount = Totals.total_amount

\* C6 (amended): a freelancer entity under Harman or LifeLong has tax 0.00 and
\* invoiceAmount = grossAmount rounded half-up to two decimals, which is
\* grossAmount itself when that has at most two decimals.
C6_FreelancerZeroTax ==
    (InvoiceDone /\ brand_name \in {"Harman", "LifeLong"}
                 /\ Contains(asc_name, "Free Lancer"))
        => /\ Totals.igst = 0
           /\ IsHalfUp2(Totals.invoice_amount, Totals.total_amount)
           /\ Totals.total_amount % 10 = 0
                 => Totals.invoice_amount = Totals.total_amount

C6_Witness ==
    /\ InvoiceDone
    /\ brand_name = "LifeLong"
    /\ Contains(asc_name, "Free Lancer")
    /\ Totals.total_amount = 375
    /\ Totals.igst = 0
    /\ Totals.invoice_amount = 380

\* C7 (as stated): tax = 0 if and only if the group is zero-rated.
C7_TaxZeroIffZeroRated ==
    InvoiceDone => (Totals.igst = 0 <=> Totals.is_freelancer)

\* C7 (amended): a zero-rated group has tax 0; a group that is not zero-rated
\* has tax 0 exactly when gross x 0.18 is below half a cent (gross < 0.0278,
\* gross 0 included).
C7_TaxZeroCases ==
    InvoiceDone =>
        (Totals.igst = 0 <=> (Totals.is_freelancer \/ 18 * Totals.total_amount < 500))

C7_Witness ==
    /\ InvoiceDone
    /\ ~Totals.is_freelancer
    /\ AmountSum = 0
    /\ Totals.igst = 0

\* C8: netAmount = invoiceAmount for Harman, Philips, LifeLong and CandorCRM;
\* for Amazon netAmount is invoiceAmount minus the sum of the COD column,
\* rounded half-up to two decimals.
C8_NetAmount ==
    InvoiceDone =>
        IF brand_name \in {"Harman", "Philips", "LifeLong", "CandorCRM"}
        THEN Totals.net_amount = Totals.invoice_amount
        ELSE /\ Totals.total_cod = ColSum(asc_data, "COD")
             /\ IsHalfUp2(Totals.net_amount,
                          Totals.invoice_amount - ColSum(asc_data, "COD"))

C8_Witness ==
    /\ InvoiceDone
    /\ brand_name = "Amazon"
    /\ ColSum(asc_data, "COD") = 125
    /\ Totals.invoice_amount = 300
    /\ Totals.net_amount = 180


Done == pc = "done"

AscColumn == BRAND_CONFIGS(brand_name).asc_column

ResultKeys == [i \in 1..Len(results) |-> results[i].asc_name]

RecordsTotal == SeqSum([i \in 1..Len(results) |-> results[i].records])

\* C3: the entity groups partition the rows of a validated dataset, rows with
\* an empty entity cell included, so the record counts of the result add up
\* to the number of input rows.
C3_GroupsPartitionRows ==
    Done =>
        /\ RecordsTotal = Len(df.rows)
        /\ \A i \in 1..Len(df.rows) :
              Cardinality({j \in 1..Len(results) :
                             \E k \in 1..Len(results[j].raw_data) :
                                 results[j].raw_data[k] = df.rows[i]}) = 1

\* C4 (as stated): the groups are processed, and the result mapping iterates,
\* in the order in which each entity value first appears in the dataset.
C4_FirstSeenOrder ==
    Done => ResultKeys = FirstSeenKeys(df.rows, AscColumn)

\* C4 (amended): the groups are processed in ascending order of the distinct
\* non-empty entity values, whatever the order of the rows, and the result
\* mapping iterates in that processing order.
C4_SortedOrder ==
    pc \in {"loop", "done"} =>
        /\ Len(results) = idx
        /\ \A i \in 1..Len(results) : \A j \in 1..Len(results) :
              i < j => Rank(results[i].asc_name) < Rank(results[j].asc_name)
        /\ idx > 0 => asc_name = results[idx].asc_name
        /\ {results[i].asc_name : i \in 1..Len(results)}
              \subseteq {df.rows[i][AscColumn] : i \in 1..Len(df.rows)} \ {NaN}
        /\ Done => {results[i].asc_name : i \in 1..Len(results)}
                     = {df.rows[i][AscColumn] : i \in 1..Len(df.rows)} \ {NaN}
        /\ \A i \in 1..Len(results) : \A k \in 1..Len(asc_groups) :
              (k > idx) => Rank(results[i].asc_name) < Rank(asc_groups[k][1])

\* Two entities whose rows come in descending order of the names.
C4_Witness ==
    /\ Done
    /\ Len(results) = 2
    /\ df.rows[1][AscColumn] = "Zen Free Lancer"
    /\ ResultKeys = <<"Acme", "Zen Free Lancer">>

WordsDone == pc = "words_done"

\* C9: an amount of zero is spelled "Zero Rupees Only", and whenever the rupee
\* part is 0 the rupee words are "Zero".
C9_ZeroRupees ==
    WordsDone =>
        /\ num = 0 => words = "Zero Rupees Only"
        /\ (RupeesOf(num) = 0 /\ PaiseOf(num) # 0) =>
              words = "Zero Rupees and " \o convert_to_words(PaiseOf(num))
                          \o " Paise Only"

\* The Indian-numbering words of r >= 1 written group by group: crores, lakhs,
\* thousands, and the last three digits, each group at most three digits and
\* a hundreds digit joined to the rest of its group by " and ".
W99(n) ==
    IF n < 20 THEN ones[n]
    ELSE IF n % 10 = 0 THEN tens[n \div 10] ELSE tens[n \div 10] \o " " \o ones[n % 10]

W999(n) ==
    IF n < 100 THEN W99(n)
    ELSE IF n % 100 = 0 THEN ones[n \div 100] \o " Hundred"
    ELSE ones[n \div 100] \o " Hundred and " \o W99(n % 100)

RECURSIVE JoinWords(_)
JoinWords(parts) ==
    IF parts = <<>> THEN ""
    ELSE IF Len(parts) = 1 THEN parts[1]
    ELSE parts[1] \o " " \o JoinWords(Tail(parts))

W(r) ==
    LET crore    == r \div 10000000
        lakh     == (r \div 100000) % 100
        thousand == (r \div 1000) % 100
        rest     == r % 1000
    IN  JoinWords(
            (IF crore > 0 THEN <<W999(crore) \o " Crore">> ELSE <<>>)
         \o (IF lakh > 0 THEN <<W99(lakh) \o " Lakh">> ELSE <<>>)
         \o (IF thousand > 0 THEN <<W99(thousand) \o " Thousand">> ELSE <<>>)
         \o (IF rest > 0 THEN <<W999(rest)>> ELSE <<>>))

\* C10: for rupees r >= 1 and paise p in 0..99 the result is "<W(r)> Rupees
\* Only" when p = 0 and "<W(r)> Rupees and <W(p)> Paise Only" otherwise, with
\* the unit switching at 1000, 100000 and 10000000.
C10_WordsFormat ==
    (WordsDone /\ RupeesOf(num) >= 1) =>
        /\ PaiseOf(num) \in 0..99
        /\ words = IF PaiseOf(num) = 0
                   THEN W(RupeesOf(num)) \o " Rupees Only"
                   ELSE W(RupeesOf(num)) \o " Rupees and " \o W(PaiseOf(num))
                            \o " Paise Only"
        /\ num = 10000 => words = "One Hundred Rupees Only"
        /\ num = 123450 => words =
              "One Thousand Two Hundred and Thirty Four Rupees and Fifty Paise Only"
        /\ num = 99900 => words = "Nine Hundred and Ninety Nine Rupees Only"
        /\ num = 100000 => words = "One Thousand Rupees Only"
        /\ num = 9999900 => words =
              "Ninety Nine Thousand Nine Hundred and Ninety Nine Rupees Only"
        /\ num = 10000000 => words = "One Lakh Rupees Only"
        /\ num = 999999900 => words =
              "Ninety Nine Lakh Ninety Nine Thousand Nine Hundred and Ninety Nine Rupees Only"
        /\ num = 1000000000 => words = "One Crore Rupees Only"

C10_Witness ==
    /\ WordsDone
    /\ num = 123450
    /\ words = "One Thousand Two Hundred and Thirty Four Rupees and Fifty Paise Only"


RequiredSet == Range(BRAND_CONFIGS(brand_name).required_columns)

\* C11: a dataset that lacks required columns makes process_invoices fail with
\* an error naming exactly the missing required columns, before any group is
\* processed: no invoice and no raw-data buffer exists.
C11_MissingColumnsError ==
    /\ (pc # "start" /\ ~(RequiredSet \subseteq df.columns)) =>
          /\ pc = "error"
          /\ error.kind = "Missing required columns"
          /\ Range(error.cols) = RequiredSet \ df.columns
          /\ Len(error.cols) = Cardinality(RequiredSet \ df.columns)
          /\ results = None
          /\ invoice_data = None
          /\ asc_data = None
          /\ asc_groups = <<>>
          /\ idx = 0
    /\ (pc = "error" /\ error.kind = "Missing required columns") =>
          ~(RequiredSet \subseteq df.columns)

\* Two required columns are missing at once.
C11_Witness ==
    /\ pc = "error"
    /\ error.kind = "Missing required columns"
    /\ Len(error.cols) = 2
    /\ Len(df.rows) > 0

\* C12: process_invoices is all-or-nothing: when a group fails after earlier
\* groups succeeded the caller gets an error and no result mapping; a returned
\* mapping holds one fully built entry per entity group.
C12_AllOrNothing ==
    /\ pc = "error" => results = None
    /\ Done =>
          /\ Len(results) = Len(asc_groups)
          /\ \A i \in 1..Len(results) :
                /\ results[i].asc_name = asc_groups[i][1]
                /\ results[i].invoice.asc_name = asc_groups[i][1]
                /\ results[i].raw_data = asc_groups[i][2].rows
                /\ results[i].records = Len(asc_groups[i][2].rows)
                /\ results[i].records > 0

C12_Witness ==
    /\ pc = "error"
    /\ error.kind = "Group processing failed"
    /\ idx = 1
    /\ Len(asc_groups) = 2
    /\ results = None


\* The scenario dataset without a group column was uploaded.
ScenarioNoGroupColumn ==
    /\ pc # "start"
    /\ df = ScenarioDataset(brand_name, RequiredSet \ {GroupColumn(brand_name)})

\* The entry of the result: one fallback line item of the given amount, and
\* the given tax and invoice amount (mills).
ScenarioEntry(e, name, amount, tax, invoice_amount) ==
    /\ e.asc_name = name
    /\ Len(e.invoice.items) = 1
    /\ e.invoice.items[1].description = "Services"
    /\ e.invoice.items[1].amount = amount
    /\ e.invoice.totals.igst = tax
    /\ e.invoice.totals.invoice_amount = invoice_amount

\* C13: the dataset with entities A, A, B, amounts 10.00, 5.00, 20.00 and no
\* group column yields two groups: A with one fallback item of 15.00, tax 2.70,
\* invoice amount 17.70, and B with one of 20.00, tax 3.60, invoice amount 23.60.
C13_EndToEnd ==
    (ScenarioNoGroupColumn /\ pc \in {"done", "error"}) =>
        /\ pc = "done"
        /\ Len(results) = 2
        /\ ScenarioEntry(results[1], "A", 15000, 2700, 17700)
        /\ ScenarioEntry(results[2], "B", 20000, 3600, 23600)


Validated == pc \in {"loop", "done"}

\* C14: for every brand the required columns contain the entity column and
\* the amount column that the line items (and the totals, where they sum a
\* column) are computed from.
C14_RequiredHasEntityAndAmount ==
    /\ AscColumn \in RequiredSet
    /\ AmountColumn(brand_name) \in RequiredSet
    /\ TotalsAmountColumn(brand_name) \in {AmountColumn(brand_name), None}
    /\ Validated => {AscColumn, AmountColumn(brand_name)} \subseteq df.columns
    /\ (Validated /\ idx > 0) =>
          /\ ItemAmountSum = round2(AmountSum)
          /\ Totals.total_amount =
                IF TotalsAmountColumn(brand_name) = None THEN 0
                ELSE ColSum(asc_data, TotalsAmountColumn(brand_name))

C14_Witness ==
    /\ Done
    /\ idx = 2
    /\ brand_name = "Philips"
    /\ AmountSum = 25000
    /\ ItemAmountSum = 25000
    /\ Totals.total_amount = 25000


\* The entity names of the model that contain 'Free Lancer' in that exact case
MarkerNames == {"Zen Free Lancer"}

\* C15: the zero-rating flag of the totals is true exactly for Harman and
\* LifeLong entities whose name contains 'Free Lancer' in that exact case, and
\* the flag the layout reads is the same flag.
C15_ZeroRatedExactly ==
    InvoiceDone =>
        /\ Totals.is_freelancer <=>
              (brand_name \in {"Harman", "LifeLong"} /\ asc_name \in MarkerNames)
        /\ invoice_data.is_freelancer = Totals.is_freelancer

\* The marker in another case does not zero-rate a Harman entity.
C15_Witness ==
    /\ InvoiceDone
    /\ brand_name = "Harman"
    /\ asc_name = "Zen free lancer"
    /\ ~Totals.is_freelancer
    /\ ~invoice_data.is_freelancer
    /\ Totals.igst > 0


Items == invoice_data.items

GroupCol == GroupColumn(brand_name)

\* The group-column values of the rows of the group, missing ones included;
\* empty when the group has no such column
GroupCells ==
    IF GroupCol \in asc_data.columns
    THEN {asc_data.rows[i][GroupCol] : i \in 1..Len(asc_data.rows)}
    ELSE {}

DistinctGroupValues == GroupCells \ {NaN}

ItemDescriptions == {Items[i].description : i \in 1..Len(Items)}

ItemQuantitySum == SeqSum([i \in 1..Len(Items) |-> Items[i].quantity])

\* C16: when the group column has a non-empty value in the group, the rows
\* whose group value is missing are collected in an item labeled "Services",
\* so that every row is counted in exactly one line item.
C16_MissingGroupRowsKept ==
    (InvoiceDone /\ DistinctGroupValues # {} /\ NaN \in GroupCells) =>
        /\ "Services" \in ItemDescriptions
        /\ ItemQuantitySum = Totals.total_qty

\* C17: one "Services" item summarising every row when the group column is
\* absent or empty in every row; otherwise one item per distinct group value
\* and no fallback item; the list is never empty.
C17_OneItemPerGroupValue ==
    InvoiceDone =>
        /\ Len(Items) >= 1
        /\ DistinctGroupValues = {} =>
              /\ Len(Items) = 1
              /\ Items[1].description = "Services"
              /\ Items[1].amount = round2(AmountSum)
              /\ Items[1].quantity = Totals.total_qty
        /\ DistinctGroupValues # {} =>
              /\ Len(Items) = Cardinality(DistinctGroupValues)
              /\ ItemDescriptions = DistinctGroupValues

\* Two rows with different group values give two items and no "Services".
C17_Witness ==
    /\ InvoiceDone
    /\ DistinctGroupValues = {"Repair", "Install"}
    /\ Len(Items) = 2
    /\ "Services" \notin ItemDescriptions


\* The rows of the worksheet that hold a line item, in the order written
WrittenItemRows ==
    LET IsItem(r) == r.border IN SelectSeq(ws.item_rows, IsItem)

\* The rows are written top-down, one per line item, in the order of the list
LayoutKeepsItemOrder ==
    /\ Len(WrittenItemRows) = Len(Items)
    /\ \A i \in 1..Len(Items) :
          /\ WrittenItemRows[i].cells[1] = Items[i].description
          /\ WrittenItemRows[i].cells[4] = Items[i].amount
          /\ i > 1 => WrittenItemRows[i - 1].row < WrittenItemRows[i].row

\* C18 (as stated): the line items are in the order in which their group
\* value first appears among the rows of the group, and the layout writes
\* them in that order.
C18_FirstSeenItemOrder ==
    InvoiceDone =>
        /\ DistinctGroupValues # {} =>
              [i \in 1..Len(Items) |-> Items[i].description]
                 = FirstSeenKeys(asc_data.rows, GroupCol)
        /\ LayoutKeepsItemOrder

\* C18 (amended): the line items are in ascending order of their group value
\* (the order of groupby), and the layout writes them in that order.
C18_SortedItemOrder ==
    InvoiceDone =>
        /\ DistinctGroupValues # {} =>
              /\ \A i \in 1..Len(Items) : Items[i].description \in DistinctGroupValues
              /\ \A i \in 2..Len(Items) :
                    Rank(Items[i - 1].description) < Rank(Items[i].description)
        /\ LayoutKeepsItemOrder

\* Rows Repair, Install give the items Install, Repair, written in that order.
C18_Witness ==
    /\ InvoiceDone
    /\ GroupCol \in asc_data.columns
    /\ Len(asc_data.rows) = 2
    /\ asc_data.rows[1][GroupCol] = "Repair"
    /\ asc_data.rows[2][GroupCol] = "Install"
    /\ Len(Items) = 2
    /\ Items[1].description = "Install"
    /\ WrittenItemRows[1].cells[1] = "Install"
    /\ WrittenItemRows[2].cells[1] = "Repair"
    /\ WrittenItemRows[1].row < WrittenItemRows[2].row

\* The rows a line item was made of
ItemPartition(i) ==
    IF DistinctGroupValues = {} THEN asc_data
    ELSE RowsWithKey(asc_data, GroupCol, Items[i].description)

\* Sum of the quantity column when the rows have one, else their number
QuantityOrCount(data) ==
    IF "quantity" \in data.columns THEN ColSum(data, "quantity") ELSE FrameLen(data)

\* C19 (as stated): for every brand the quantity of the totals and of each
\* line item is the sum of the quantity column when the dataset has one, and
\* the row count otherwise.
C19_QuantityEveryBrand ==
    InvoiceDone =>
        /\ Totals.total_qty = QuantityOrCount(asc_data)
        /\ \A i \in 1..Len(Items) : Items[i].quantity = QuantityOrCount(ItemPartition(i))

\* C19 (amended): that rule is Amazon's; for every other brand the quantity of
\* the totals and of each line item is the row count, quantity column or not.
C19_QuantityAmazonOnly ==
    InvoiceDone =>
        IF brand_name = "Amazon"
        THEN /\ Totals.total_qty = QuantityOrCount(asc_data)
             /\ \A i \in 1..Len(Items) :
                   Items[i].quantity = QuantityOrCount(ItemPartition(i))
        ELSE /\ Totals.total_qty = Len(asc_data.rows)
             /\ \A i \in 1..Len(Items) :
                   Items[i].quantity = Len(ItemPartition(i).rows)

\* A Harman group with a quantity column that adds up to 4 over its two rows
\* is counted as 2.
C19_Witness ==
    /\ InvoiceDone
    /\ brand_name = "Harman"
    /\ "quantity" \in asc_data.columns
    /\ ColSum(asc_data, "quantity") = 4
    /\ Totals.total_qty = 2
    /\ Len(Items) = 1
    /\ Items[1].quantity = 2

\* x (mills, a whole number of paise) is v (mills) rounded to two decimals,
\* a tie going to the even paisa
IsHalfEven2(x, v) ==
    /\ x % 10 = 0
    /\ Abs(x - v) <= 5
    /\ Abs(x - v) = 5 => (x \div 10) % 2 = 0

LayoutDone == pc = "layout_done"

\* The rows of the item table that are spacing rows
SpacingRowNumbers ==
    {ws.item_rows[j].row : j \in {k \in 1..Len(ws.item_rows) : ~ws.item_rows[k].border}}

\* C21: in the standard layout item i (from 0) is at row 12 + i and the totals
\* row at 12 + n; under LifeLong three unbordered blank rows follow every item
\* but the last, so item i is at row 12 + 4i and the totals row at
\* 12 + n + 3(n - 1).
C21_StandardItemRows ==
    (LayoutDone /\ brand_name # "CandorCRM") =>
        LET n == Len(Items)
            step == IF brand_name = "LifeLong" THEN 4 ELSE 1
        IN  /\ n >= 1
            /\ Len(WrittenItemRows) = n
            /\ \A i \in 1..n :
                  /\ WrittenItemRows[i].row = 12 + step * (i - 1)
                  /\ WrittenItemRows[i].cells[1] = Items[i].description
            /\ SpacingRowNumbers =
                  IF brand_name = "LifeLong"
                  THEN {12 + 4 * (i - 1) + k : i \in 1..(n - 1), k \in 1..3}
                  ELSE {}
            /\ Len(ws.item_rows) = n + Cardinality(SpacingRowNumbers)
            /\ ws.total_row = IF brand_name = "LifeLong" THEN 12 + n + 3 * (n - 1)
                              ELSE 12 + n
            /\ ws.tail_rows[1].section = "total"
            /\ ws.tail_rows[1].row = ws.total_row

\* A LifeLong invoice of three items: rows 12, 16, 20 and the totals in row 21.
C21_Witness ==
    /\ LayoutDone
    /\ brand_name = "LifeLong"
    /\ Len(Items) = 3
    /\ WrittenItemRows[3].row = 20
    /\ SpacingRowNumbers = {13, 14, 15, 17, 18, 19}
    /\ ws.total_row = 21


\* The numbers of the rows after the item table whose column A holds the label
LabelRows(label) ==
    {ws.tail_rows[j].row :
        j \in {k \in 1..Len(ws.tail_rows) : ws.tail_rows[k].cells[1] = Text(label)}}

\* The rows after the item table that a section wrote
SectionRows(section) ==
    {ws.tail_rows[j].row :
        j \in {k \in 1..Len(ws.tail_rows) : ws.tail_rows[k].section = section}}

InvoiceAmountRows == LabelRows("Invoice Amount") \cup LabelRows("Grand Total")

\* C22: the advance-received and net-amount rows exist exactly for Amazon,
\* where they follow the invoice-amount row and the amount-in-words label row
\* follows the net-amount row; for the other brands the amount-in-words label
\* row follows the invoice-amount / Grand Total row directly.
C22_AdvanceSection ==
    LayoutDone =>
        /\ Cardinality(InvoiceAmountRows) = 1
        /\ \A r \in InvoiceAmountRows :
              IF brand_name = "Amazon"
              THEN /\ LabelRows("Advance Received (COD)") = {r + 1}
                   /\ LabelRows("Net Amount") = {r + 2}
                   /\ LabelRows("Invoice Amount (in words)") = {r + 3}
              ELSE /\ LabelRows("Advance Received (COD)") = {}
                   /\ LabelRows("Net Amount") = {}
                   /\ SectionRows("advance") = {}
                   /\ LabelRows("Invoice Amount (in words)") = {r + 1}

\* An Amazon invoice of two items: invoice amount in row 18, advance 19, net
\* amount 20, the words label in row 21.
C22_Witness ==
    /\ LayoutDone
    /\ brand_name = "Amazon"
    /\ Len(Items) = 2
    /\ InvoiceAmountRows = {18}
    /\ SectionRows("advance") = {19, 20}
    /\ LabelRows("Invoice Amount (in words)") = {21}


\* The rows after the item table whose column A holds the label
LabelledRows(label) ==
    LET Has(r) == r.cells[1] = Text(label) IN SelectSeq(ws.tail_rows, Has)

\* Columns C and D of the one row with the label are c and d
RowShows(label, c, d) ==
    /\ Len(LabelledRows(label)) = 1
    /\ LabelledRows(label)[1].cells[3] = c
    /\ LabelledRows(label)[1].cells[4] = d

TaxBlockLabels ==
    LET Between(r) == /\ r.row > ws.total_row
                      /\ \A a \in InvoiceAmountRows : r.row < a
        block == SelectSeq(ws.tail_rows, Between)
    IN  [i \in 1..Len(block) |-> block[i].cells[1]]

\* C24 (as stated): in both layout variants exactly three rows, IGST, CGST and
\* SGST, lie between the totals row and the invoice-amount / Grand Total row.
C24_ThreeTaxRows ==
    LayoutDone =>
        /\ TaxBlockLabels = <<Text("IGST"), Text("CGST"), Text("SGST")>>
        /\ InvoiceAmountRows = {ws.total_row + 4}

\* C24 (amended): the standard layout has these three rows; the CandorCRM
\* layout has four, the IGST row with the rate, a row without label with the
\* tax amount, CGST and SGST, so that its Grand Total row is five rows below
\* the totals row.
C24_TaxBlockRows ==
    LayoutDone =>
        IF brand_name # "CandorCRM"
        THEN /\ TaxBlockLabels = <<Text("IGST"), Text("CGST"), Text("SGST")>>
             /\ InvoiceAmountRows = {ws.total_row + 4}
        ELSE /\ TaxBlockLabels = <<Text("IGST"), Text(""), Text("CGST"), Text("SGST")>>
             /\ InvoiceAmountRows = {ws.total_row + 5}

\* A CandorCRM invoice of one item: totals in row 14, four tax rows, Grand
\* Total in row 19.
C24_Witness ==
    /\ LayoutDone
    /\ brand_name = "CandorCRM"
    /\ Len(Items) = 1
    /\ ws.total_row = 14
    /\ SectionRows("gst") = {15, 16, 17, 18}
    /\ LabelRows("Grand Total") = {19}


\* Every row number the worksheet has a cell or a merged region in
UsedRows ==
    {ws.header_rows[j].row : j \in 1..Len(ws.header_rows)}
      \cup {ws.item_rows[j].row : j \in 1..Len(ws.item_rows)}
      \cup {ws.tail_rows[j].row : j \in 1..Len(ws.tail_rows)}
      \cup UNION {ws.merges[j].min_row .. ws.merges[j].max_row : j \in 1..Len(ws.merges)}

\* C25: the declaration block is the nine rows from two rows after the
\* amount-in-words label row, merged over columns A-B; the signatory block is
\* the same nine rows merged over columns C-D; no row of the document lies
\* below them.
C25_DeclarationBlock ==
    LayoutDone =>
        \A w \in LabelRows("Invoice Amount (in words)") :
            /\ SectionRows("declaration") = (w + 2)..(w + 10)
            /\ LabelRows("Declaration") = {w + 2}
            /\ Merge(w + 2, 1, w + 10, 2) \in Range(ws.merges)
            /\ Merge(w + 2, 3, w + 10, 4) \in Range(ws.merges)
            /\ \A j \in 1..Len(ws.tail_rows) :
                  ws.tail_rows[j].row = w + 2 =>
                      ws.tail_rows[j].cells[3] = Text("Authorised Signatory")
            /\ \A r \in UsedRows : r <= w + 10

\* A Philips invoice of four items: the words label in row 21, the
\* declaration and the signatory in rows 23 to 31.
C25_Witness ==
    /\ LayoutDone
    /\ brand_name = "Philips"
    /\ Len(Items) = 4
    /\ LabelRows("Invoice Amount (in words)") = {21}
    /\ SectionRows("declaration") = 23..31
    /\ Merge(23, 3, 31, 4) \in Range(ws.merges)


\* The rows outside the item table, header first
SectionRowRecords == ws.header_rows \o ws.tail_rows

\* C26: every cell of columns A-D of every row from row 1 to the last
\* declaration row carries a border, the line-spacing rows excepted; the title
\* row, the table-header row and the invoice-amount / Grand Total row carry
\* the fill in all four columns.
C26_BordersAndFill ==
    LayoutDone =>
        /\ \A j \in 1..Len(SectionRowRecords) : SectionRowRecords[j].border = AllCols
        /\ \A j \in 1..Len(ws.item_rows) :
              ws.item_rows[j].border \/ ws.item_rows[j].row \in SpacingRowNumbers
        /\ \A j \in 1..Len(SectionRowRecords) :
              SectionRowRecords[j].section \in {"title", "table_headers", "invoice_amount"}
                 => SectionRowRecords[j].fill = AllCols
        /\ \A r \in UsedRows :
              \/ \E j \in 1..Len(SectionRowRecords) : SectionRowRecords[j].row = r
              \/ \E j \in 1..Len(ws.item_rows) : ws.item_rows[j].row = r


\* C27: for every brand and entity the total_amount of the result entry is the
\* sum of the brand's amount column over the rows of the entity.
C27_SummaryTotalIsGross ==
    Done =>
        \A i \in 1..Len(results) :
            results[i].total_amount
               = ColSum(asc_groups[i][2], AmountColumn(brand_name))


\* The row numbers of the worksheet in the order the layout goes through its
\* sections: header, item table, the rows from the totals on
RowNumbers ==
    [j \in 1..Len(ws.header_rows) |-> ws.header_rows[j].row]
      \o [j \in 1..Len(ws.item_rows) |-> ws.item_rows[j].row]
      \o [j \in 1..Len(ws.tail_rows) |-> ws.tail_rows[j].row]

\* A sequence without its immediate repetitions
RECURSIVE Compress(_)
Compress(q) ==
    IF Len(q) <= 1 THEN q
    ELSE IF q[1] = q[2] THEN Compress(Tail(q))
    ELSE <<q[1]>> \o Compress(Tail(q))

\* The sections of the rows from the totals on, top-down
TailSections == Compress([j \in 1..Len(ws.tail_rows) |-> ws.tail_rows[j].section])

MergesIntersect(a, b) ==
    /\ a.min_row <= b.max_row /\ b.min_row <= a.max_row
    /\ a.min_col <= b.max_col /\ b.min_col <= a.max_col

\* C28: the sections lie on consecutive row spans without gap or overlap (the
\* rows written are 1, 2, 3, ... each once, each section one span), no two
\* merged regions intersect, and every row from the totals on lies below the
\* last row of the item table.
C28_ConsecutiveSections ==
    LayoutDone =>
        /\ Len(Items) >= 1
        /\ \A j \in 1..Len(RowNumbers) : RowNumbers[j] = j
        /\ TailSections =
              IF brand_name = "Amazon"
              THEN <<"total", "gst", "invoice_amount", "advance", "amount_in_words",
                     "declaration">>
              ELSE <<"total", "gst", "invoice_amount", "amount_in_words", "declaration">>
        /\ \A j, k \in 1..Len(ws.merges) :
              j < k => ~MergesIntersect(ws.merges[j], ws.merges[k])
        /\ \A j \in 1..Len(ws.merges) :
              /\ ws.merges[j].min_row <= ws.merges[j].max_row
              /\ ws.merges[j].min_col <= ws.merges[j].max_col
              /\ ws.merges[j].max_row <= Len(RowNumbers)
        /\ \A j \in 1..Len(ws.tail_rows), k \in 1..Len(ws.item_rows) :
              ws.tail_rows[j].row > ws.item_rows[k].row

\* A LifeLong invoice of four items: items and spacing in rows 12 to 24, the
\* totals in row 25, the document ends in row 40.
C28_Witness ==
    /\ LayoutDone
    /\ brand_name = "LifeLong"
    /\ Len(Items) = 4
    /\ Len(ws.item_rows) = 13
    /\ ws.total_row = 25
    /\ UsedRows = 1..40


\* The invoice amount of the totals, in paise
InvoicePaise == Totals.invoice_amount \div 10

C30_TotalQuantityIsItemSum ==
    InvoiceDone =>
        /\ ItemQuantitySum = Totals.total_qty
        /\ brand_name # "CandorCRM" =>
              /\ ws.tail_rows[1].row = ws.total_row
              /\ ws.tail_rows[1].cells[3] = Number(ItemQuantitySum)

=============================================================================
